---- MODULE Spec2Model ----
(***************************************************************************)
(* Model of app.py: a Streamlit page over a PostgreSQL store holding the   *)
(* cartridge-type catalog (cartridge_types) and the fill ledger            *)
(* (transactions).  Every interaction reruns main(): it opens a            *)
(* connection, creates the tables if needed, seeds the catalog if empty    *)
(* and then serves the widget that fired.                                  *)
(***************************************************************************)
EXTENDS Integers, Sequences, FiniteSets, TLC

(***************************************************************************)
(* Python floats.  measured_weight, the masses and the ratios are IEEE-754 *)
(* binary64 values and lines 194-205 compute on them with -, * and the     *)
(* comparisons < 0 and > 0.  A float is [neg, m, e] standing for           *)
(* (-1)^neg * m * 2^e, where m is zero or has exactly 53 bits.  m does not *)
(* fit a 32-bit integer of TLC, so it is a little-endian sequence          *)
(* of limbs in base 2^15 without leading zero limbs (<<>> is zero).        *)
(* Results are rounded to nearest, ties to even.  The values met here stay *)
(* far from the overflow and subnormal ranges, which are not modelled.     *)
(***************************************************************************)
Base == 2^15

Precision == 53

Hd(a) == IF a = <<>> THEN 0 ELSE Head(a)

Tl(a) == IF a = <<>> THEN <<>> ELSE Tail(a)

RECURSIVE Norm(_)
Norm(a) ==
    IF a = <<>> THEN <<>>
    ELSE IF a[Len(a)] = 0 THEN Norm(SubSeq(a, 1, Len(a) - 1)) ELSE a

RECURSIVE AddRec(_, _, _)
AddRec(a, b, c) ==
    IF a = <<>> /\ b = <<>> THEN (IF c = 0 THEN <<>> ELSE <<c>>)
    ELSE LET x == Hd(a) + Hd(b) + c
         IN  <<x % Base>> \o AddRec(Tl(a), Tl(b), x \div Base)

BAdd(a, b) == AddRec(a, b, 0)

RECURSIVE SubRec(_, _, _)
SubRec(a, b, c) ==
    IF a = <<>> THEN <<>>
    ELSE LET x == Hd(a) - Hd(b) - c
         IN  IF x < 0 THEN <<x + Base>> \o SubRec(Tl(a), Tl(b), 1)
             ELSE <<x>> \o SubRec(Tl(a), Tl(b), 0)

\* a - b for a >= b
BSub(a, b) == Norm(SubRec(a, b, 0))

RECURSIVE CmpFrom(_, _, _)
CmpFrom(a, b, i) ==
    IF i = 0 THEN 0
    ELSE IF a[i] > b[i] THEN 1
    ELSE IF a[i] < b[i] THEN -1
    ELSE CmpFrom(a, b, i - 1)

\* -1, 0 or 1 as a < b, a = b or a > b
BCmp(a, b) ==
    IF Len(a) > Len(b) THEN 1
    ELSE IF Len(a) < Len(b) THEN -1
    ELSE CmpFrom(a, b, Len(a))

RECURSIVE MulSmallRec(_, _, _)
MulSmallRec(a, k, c) ==
    IF a = <<>> THEN (IF c = 0 THEN <<>> ELSE <<c>>)
    ELSE LET x == Head(a) * k + c
         IN  <<x % Base>> \o MulSmallRec(Tail(a), k, x \div Base)

\* a * k for 0 <= k < Base
BMulSmall(a, k) == IF k = 0 THEN <<>> ELSE MulSmallRec(a, k, 0)

ShiftLimb(a) == IF a = <<>> THEN <<>> ELSE <<0>> \o a

RECURSIVE BMul(_, _)
BMul(a, b) ==
    IF b = <<>> THEN <<>>
    ELSE BAdd(BMulSmall(a, Head(b)), ShiftLimb(BMul(a, Tail(b))))

RECURSIVE DivSmallRec(_, _, _, _)
DivSmallRec(a, d, i, r) ==
    IF i = 0 THEN [q |-> <<>>, r |-> r]
    ELSE LET rest == DivSmallRec(a, d, i - 1, (r * Base + a[i]) % d)
         IN  [q |-> rest.q \o <<(r * Base + a[i]) \div d>>, r |-> rest.r]

NormQ(res) == [q |-> Norm(res.q), r |-> res.r]

\* quotient and remainder of a by d, for 0 < d <= Base
BDivSmall(a, d) == NormQ(DivSmallRec(a, d, Len(a), 0))

RECURSIVE BitLenSmall(_)
BitLenSmall(k) == IF k = 0 THEN 0 ELSE 1 + BitLenSmall(k \div 2)

BitLen(a) == IF a = <<>> THEN 0 ELSE 15 * (Len(a) - 1) + BitLenSmall(a[Len(a)])

Zeros(n) == [i \in 1..n |-> 0]

\* a * 2^s
BShl(a, s) == IF a = <<>> THEN <<>> ELSE BMulSmall(Zeros(s \div 15) \o a, 2^(s % 15))

\* floor(a / 2^s)
BShr(a, s) ==
    IF Len(a) <= s \div 15 THEN <<>>
    ELSE BDivSmall(SubSeq(a, (s \div 15) + 1, Len(a)), 2^(s % 15)).q

BFromInt(n) == Norm(<<n % Base, (n \div Base) % Base, n \div (Base * Base)>>)

BOdd(a) == Hd(a) % 2 = 1

FZero == [neg |-> FALSE, m |-> <<>>, e |-> 0]

\* The binary64 nearest to (-1)^neg * M * 2^E, ties to even, in four steps:
\* q2 * 2^E is the rounded value; a carry out of bit 53 moves the exponent
Renorm(neg, E, q2) ==
    IF BitLen(q2) > Precision
    THEN [neg |-> neg, m |-> BShr(q2, 1), e |-> E + 1]
    ELSE [neg |-> neg, m |-> q2, e |-> E]

\* c compares the bits cut off with one half of the last place kept
RoundUp(neg, E, q, c) ==
    Renorm(neg, E, IF c > 0 \/ (c = 0 /\ BOdd(q)) THEN BAdd(q, <<1>>) ELSE q)

\* q holds the 53 leading bits of M, s bits are cut off
RoundShift(neg, M, E, s, q) ==
    RoundUp(neg, E, q, BCmp(BSub(M, BShl(q, s)), BShl(<<1>>, s - 1)))

\* L is the bit length of M
RoundBits(neg, M, E, L) ==
    IF L = 0 THEN FZero
    ELSE IF L <= Precision
    THEN [neg |-> neg, m |-> BShl(M, Precision - L), e |-> E - (Precision - L)]
    ELSE RoundShift(neg, M, E + (L - Precision), L - Precision, BShr(M, L - Precision))

RoundF(neg, M, E) == RoundBits(neg, M, E, BitLen(M))

FNeg(x) == IF x.m = <<>> THEN x ELSE [x EXCEPT !.neg = ~x.neg]

Min(i, j) == IF i < j THEN i ELSE j

\* X * 2^e0 and Y * 2^e0 are the magnitudes, c compares X with Y
AddSigned(xneg, yneg, X, Y, e0, c) ==
    RoundF(IF xneg = yneg \/ c > 0 THEN xneg ELSE yneg,
           IF xneg = yneg THEN BAdd(X, Y)
           ELSE IF c > 0 THEN BSub(X, Y) ELSE BSub(Y, X),
           e0)

AddAligned(xneg, yneg, X, Y, e0) == AddSigned(xneg, yneg, X, Y, e0, BCmp(X, Y))

AddAt(x, y, e0) == AddAligned(x.neg, y.neg, BShl(x.m, x.e - e0), BShl(y.m, y.e - e0), e0)

\* x + y
FAdd(x, y) ==
    IF x.m = <<>> THEN y
    ELSE IF y.m = <<>> THEN x
    ELSE AddAt(x, y, Min(x.e, y.e))

\* x - y
FSub(x, y) == FAdd(x, FNeg(y))

\* x * y
FMul(x, y) == RoundF(x.neg # y.neg, BMul(x.m, y.m), x.e + y.e)

\* x < 0 and x > 0
FIsNeg(x) == x.neg /\ x.m # <<>>

FIsPos(x) == ~x.neg /\ x.m # <<>>

\* |x| as a multiple of 2^e0, for e0 at most the exponent of x
Mag(x, e0) == BShl(x.m, x.e - e0)

\* -1, 0, 1 as |x| is below, equal to or above |y|
MagCmp(x, y, e0) == BCmp(Mag(x, e0), Mag(y, e0))

\* x < y, decided on the exact values
FLess(x, y) ==
    IF FIsNeg(x)
    THEN ~FIsNeg(y) \/ MagCmp(x, y, Min(x.e, y.e)) > 0
    ELSE ~FIsNeg(y) /\ MagCmp(x, y, Min(x.e, y.e)) < 0

\* The float a decimal with two places denotes: the binary64 nearest to
\* n / 100 (a literal such as 0.70, or a value typed into st.number_input).
\* The quotient d is taken to 70 fractional bits, plus a sticky bit.
DecQ(d) == RoundF(FALSE, BAdd(BShl(d.q, 1), IF d.r = 0 THEN <<>> ELSE <<1>>), -71)

Dec(n) == IF n = 0 THEN FZero ELSE DecQ(BDivSmall(BShl(BFromInt(n), 70), 100))

(***************************************************************************)
(* The store.  A row of cartridge_types is                                 *)
(*   [id, name, full_gas_mass, empty_mass, color, butane, propane]         *)
(* and a row of transactions is                                            *)
(*   [id, date, cartridge_type_id, color, measured_weight, gas_mass,       *)
(*    missing_gas, butane_to_add, propane_to_add, client_name].            *)
(* Both ids are SERIAL: type_seq and tx_seq are the last values their      *)
(* sequences handed out.  The numeric columns hold the floats as read back *)
(* by the program.  conns counts the connections that the latest request   *)
(* opened with get_connection and that are still open.  last describes the *)
(* event that produced the current state.  deleted_tx, added and touched are history variables: the        *)
(* transaction ids delete_transaction was executed on, the type ids        *)
(* created by add_cartridge_type, and the type ids this session updated or *)
(* deleted (while they existed).                                           *)
(***************************************************************************)
VARIABLES tables, cartridge_types, type_seq, transactions, tx_seq,
          conns, last, deleted_tx, added, touched

vars == <<tables, cartridge_types, type_seq, transactions, tx_seq,
          conns, last, deleted_tx, added, touched>>

\* Bounds of the model
MaxTypeId == 10

MaxAdded == 1

MaxTouched == 2

\* add_transaction: the %s placeholders of its INSERT and the parameters passed
TxPlaceholders == 6

TxParams == 9

TypeFields(name, full_gas_mass, empty_mass, color, butane, propane) ==
    [name |-> name, full_gas_mass |-> full_gas_mass, empty_mass |-> empty_mass,
     color |-> color, butane |-> butane, propane |-> propane]

TypeRow(id, f) ==
    [id |-> id, name |-> f.name, full_gas_mass |-> f.full_gas_mass,
     empty_mass |-> f.empty_mass, color |-> f.color, butane |-> f.butane,
     propane |-> f.propane]

FieldsOf(row) ==
    TypeFields(row.name, row.full_gas_mass, row.empty_mass, row.color,
               row.butane, row.propane)

\* The fields of a type from its name, its color and its four numbers written
\* in hundredths (40000 is 400.00, 70 is 0.70)
Form(t) == TypeFields(t[1], Dec(t[2]), Dec(t[3]), t[4], Dec(t[5]), Dec(t[6]))

DefaultLiterals ==
    << <<"Type A", 40000, 20000, "Bleu", 70, 30>>,
       <<"Type B", 50000, 25000, "Rouge", 60, 40>>,
       <<"Type C", 45000, 22000, "Bleu", 70, 30>>,
       <<"Type D", 60000, 30000, "Rouge", 60, 40>>,
       <<"Type E", 55000, 28000, "Bleu", 70, 30>> >>

default_types == [i \in DOMAIN DefaultLiterals |-> Form(DefaultLiterals[i])]

Ids(rows) == {r.id : r \in rows}

\* The database behind a connection, as the functions below read and write it
Store ==
    [tables |-> tables, cartridge_types |-> cartridge_types, type_seq |-> type_seq,
     transactions |-> transactions, tx_seq |-> tx_seq]

\* CREATE TABLE IF NOT EXISTS: a missing table is created empty
init_db(db) == [db EXCEPT !.tables = TRUE]

\* Lines 65-69 without the count test of lines 55-57
add_default_unchecked(db) ==
    [db EXCEPT
        !.cartridge_types = @ \cup
            {TypeRow(db.type_seq + i, default_types[i]) : i \in DOMAIN DefaultLiterals},
        !.type_seq = db.type_seq + Len(DefaultLiterals)]

\* Inserts the five default types, only into an empty catalog
add_default_cartridge_types(db) ==
    IF Cardinality(db.cartridge_types) = 0
    THEN [db EXCEPT
            !.cartridge_types =
                {TypeRow(db.type_seq + i, default_types[i]) : i \in DOMAIN DefaultLiterals},
            !.type_seq = db.type_seq + Len(DefaultLiterals)]
    ELSE db

\* SELECT * FROM cartridge_types: the rows, in no stated order
get_cartridge_types(db) == db.cartridge_types

add_cartridge_type(db, name, full_gas_mass, empty_mass, color, butane, propane) ==
    [db EXCEPT
        !.cartridge_types = @ \cup
            {TypeRow(db.type_seq + 1,
                     TypeFields(name, full_gas_mass, empty_mass, color, butane, propane))},
        !.type_seq = db.type_seq + 1]

\* An update that writes the row when no row matches id
upsert_cartridge_type(db, id, name, full_gas_mass, empty_mass, color, butane, propane) ==
    [db EXCEPT
        !.cartridge_types =
            {r \in @ : r.id # id} \cup
            {TypeRow(id, TypeFields(name, full_gas_mass, empty_mass, color,
                                    butane, propane))}]

\* An UPDATE without its WHERE clause
update_every_type(db, id, name, full_gas_mass, empty_mass, color, butane, propane) ==
    [db EXCEPT
        !.cartridge_types =
            {TypeRow(r.id, TypeFields(name, full_gas_mass, empty_mass, color,
                                      butane, propane)) : r \in @}]

\* UPDATE ... WHERE id=%s: rewrites the rows matching id, none if there is none
update_cartridge_type(db, id, name, full_gas_mass, empty_mass, color, butane, propane) ==
    [db EXCEPT
        !.cartridge_types =
            {IF r.id = id
             THEN TypeRow(id, TypeFields(name, full_gas_mass, empty_mass, color,
                                         butane, propane))
             ELSE r : r \in @}]

\* transactions.cartridge_type_id REFERENCES cartridge_types(id): the store
\* refuses to delete a type that a transaction row still references
Referenced(db, type_id) == \E t \in db.transactions : t.cartridge_type_id = type_id

\* The DELETE in a store that does not enforce the reference
delete_unchecked(db, type_id) ==
    [db |-> [db EXCEPT !.cartridge_types = {r \in @ : r.id # type_id}],
     exc |-> "none"]

\* DELETE FROM cartridge_types WHERE id=%s
delete_cartridge_type(db, type_id) ==
    IF Referenced(db, type_id)
    THEN [db |-> db, exc |-> "IntegrityError"]
    ELSE [db |-> [db EXCEPT !.cartridge_types = {r \in @ : r.id # type_id}],
          exc |-> "none"]

\* The INSERT names nine columns and passes nine parameters but holds six %s
\* placeholders, so the driver raises TypeError while formatting the statement
\* and nothing reaches the store.  date_str is datetime.now() as text.
add_transaction(db, date_str, cartridge_type_id, color, measured_weight, gas_mass, missing_gas, butane_to_add, propane_to_add, client_name) ==
    IF TxPlaceholders # TxParams
    THEN [db |-> db, exc |-> "TypeError"]
    ELSE IF cartridge_type_id \notin Ids(db.cartridge_types)
    THEN [db |-> db, exc |-> "IntegrityError"]
    ELSE [db |-> [db EXCEPT
                    !.transactions = @ \cup
                        {[id |-> db.tx_seq + 1, date |-> date_str,
                          cartridge_type_id |-> cartridge_type_id, color |-> color,
                          measured_weight |-> measured_weight, gas_mass |-> gas_mass,
                          missing_gas |-> missing_gas, butane_to_add |-> butane_to_add,
                          propane_to_add |-> propane_to_add,
                          client_name |-> client_name]},
                    !.tx_seq = db.tx_seq + 1],
          exc |-> "none"]

\* The texts stored in transactions.date, in ascending text order
DateTexts == << "2024-01-05 10:00:00", "2024-03-01 09:30:00", "hier" >>

TextRank(d) == CHOOSE i \in 1..Len(DateTexts) : DateTexts[i] = d

TextLess(a, b) == TextRank(a) < TextRank(b)

\* t JOIN ct ON t.cartridge_type_id = ct.id, with the selected columns
Joined(db) ==
    {[id |-> t.id, date |-> t.date, cartridge_name |-> ct.name, color |-> t.color,
      measured_weight |-> t.measured_weight, gas_mass |-> t.gas_mass,
      missing_gas |-> t.missing_gas, butane_to_add |-> t.butane_to_add,
      propane_to_add |-> t.propane_to_add, client_name |-> t.client_name] :
        <<t, ct>> \in {p \in db.transactions \X db.cartridge_types :
                          p[1].cartridge_type_id = p[2].id}}

\* ORDER BY date DESC: every sequence of the rows with the dates descending
\* (rows with equal dates come in either order)
RECURSIVE OrderByDateDesc(_)
OrderByDateDesc(rows) ==
    IF rows = {} THEN {<<>>}
    ELSE UNION {{<<r>> \o s : s \in OrderByDateDesc(rows \ {r})} :
                  r \in {x \in rows : \A y \in rows : ~TextLess(x.date, y.date)}}

\* ORDER BY date ASC: the same sequences, reversed
list_ascending(db) ==
    {[i \in 1..Len(s) |-> s[Len(s) + 1 - i]] : s \in OrderByDateDesc(Joined(db))}

\* The results the query of get_transactions can return
get_transactions(db) == OrderByDateDesc(Joined(db))

\* A delete that reaches no row
keep_transaction(db, transaction_id) == db

\* DELETE FROM transactions WHERE id=%s
delete_transaction(db, transaction_id) ==
    [db EXCEPT !.transactions = {t \in @ : t.id # transaction_id}]

\* UPDATE transactions SET ... WHERE id=%s
update_transaction(db, transaction_id, new_date, new_measured_weight, new_gas_mass, new_missing_gas, new_butane_to_add, new_propane_to_add, new_client_name) ==
    [db EXCEPT
        !.transactions =
            {IF t.id = transaction_id
             THEN [t EXCEPT !.date = new_date,
                            !.measured_weight = new_measured_weight,
                            !.gas_mass = new_gas_mass,
                            !.missing_gas = new_missing_gas,
                            !.butane_to_add = new_butane_to_add,
                            !.propane_to_add = new_propane_to_add,
                            !.client_name = new_client_name]
             ELSE t : t \in @}]


(***************************************************************************)
(* main().  Lines 192-205: the fill computed from the selected type and    *)
(* the measured weight.  When gas_mass < 0 the page shows an error and the *)
(* other three values are never computed (reported here as zero).          *)
(***************************************************************************)
FillValues(selected_type, gas_mass, missing_gas) ==
    [rejected |-> FALSE, gas_mass |-> gas_mass, missing_gas |-> missing_gas,
     butane_to_add |-> FMul(missing_gas, selected_type.butane),
     propane_to_add |-> FMul(missing_gas, selected_type.propane)]

\* Line 200 without its clamp
Unclamped(missing_gas) == missing_gas

\* missing_gas if missing_gas > 0 else 0
Clamp(missing_gas) == IF FIsPos(missing_gas) THEN missing_gas ELSE FZero

\* Lines 194-205 without the test of line 194
FillUnchecked(selected_type, gas_mass) ==
    FillValues(selected_type, gas_mass,
               Clamp(FSub(selected_type.full_gas_mass, gas_mass)))

FillFrom(selected_type, gas_mass) ==
    IF FIsNeg(gas_mass)
    THEN [rejected |-> TRUE, gas_mass |-> gas_mass, missing_gas |-> FZero,
          butane_to_add |-> FZero, propane_to_add |-> FZero]
    ELSE FillValues(selected_type, gas_mass,
                    Clamp(FSub(selected_type.full_gas_mass, gas_mass)))

Fill(selected_type, measured_weight) ==
    FillFrom(selected_type, FSub(measured_weight, selected_type.empty_mass))

\* Lines 163-165, after get_connection: what every run of main does first
Prelude(db) == add_default_cartridge_types(init_db(db))

\* Values the user can enter
Weights == {Dec(n) : n \in {15000, 20003, 100001}}

ClientNames == {"", "Alice"}

AddForms ==
    { Form(t) : t \in { <<"Type A", 30000, 10000, "Rouge", 60, 40>>,
                        <<"", 30000, 10000, "Bleu", 70, 30>> } }

ModForms == { Form(t) : t \in { <<"Type X", 48000, 21000, "Rouge", 55, 45>> } }

TxForms ==
    { [date |-> t[1], measured_weight |-> Dec(t[2][1]), gas_mass |-> Dec(t[2][2]),
       missing_gas |-> Dec(t[2][3]), butane_to_add |-> Dec(t[2][4]),
       propane_to_add |-> Dec(t[2][5]), client_name |-> t[3]] :
         t \in { <<"hier", <<26000, 6000, 100, 9900, 0>>, "Bob">> } }

Pages == {"Transaction", "Configuration", "Historique"}

\* Lines 192-205 for every type a row of the catalog can hold here and every
\* weight the user can enter: the values of Fill, computed once
FormsInUse == {default_types[i] : i \in DOMAIN DefaultLiterals} \cup AddForms \cup ModForms

FillTable == [f \in FormsInUse, w \in Weights |-> Fill(f, w)]

\* datetime.now() formatted, as add_transaction would store it
Now == DateTexts[2]

Event(op, args, outcome, seeded, fill, view) ==
    [op |-> op, args |-> args, outcome |-> outcome, seeded |-> seeded,
     fill |-> fill, view |-> view]

Seeds(db) == db.cartridge_types = {}

Commit(db) ==
    /\ tables' = db.tables
    /\ cartridge_types' = db.cartridge_types
    /\ type_seq' = db.type_seq
    /\ transactions' = db.transactions
    /\ tx_seq' = db.tx_seq

\* A store no session has used yet, and a store left by earlier sessions:
\* init_db keeps the tables it finds and add_default_cartridge_types keeps a
\* catalog that has rows, so main starts on either
FreshStore ==
    [tables |-> FALSE, cartridge_types |-> {}, type_seq |-> 0,
     transactions |-> {}, tx_seq |-> 0]

OldRow(t) ==
    [id |-> t[1], date |-> DateTexts[t[2]], cartridge_type_id |-> t[3],
     color |-> default_types[t[3]].color, measured_weight |-> Dec(t[4][1]),
     gas_mass |-> Dec(t[4][2]), missing_gas |-> Dec(t[4][3]),
     butane_to_add |-> Dec(t[4][4]), propane_to_add |-> Dec(t[4][5]),
     client_name |-> t[5]]

UsedStore ==
    [tables |-> TRUE,
     cartridge_types |-> {TypeRow(i, default_types[i]) : i \in {1, 2}},
     type_seq |-> 5,
     transactions |->
        {OldRow(t) : t \in { <<1, 1, 1, <<25000, 5000, 35000, 24500, 10500>>, "Alice">>,
                             <<2, 2, 2, <<30000, 5000, 45000, 27000, 18000>>, "">> }},
     tx_seq |-> 2]

Init ==
    /\ \E db \in {FreshStore, UsedStore} :
          /\ tables = db.tables
          /\ cartridge_types = db.cartridge_types
          /\ type_seq = db.type_seq
          /\ transactions = db.transactions
          /\ tx_seq = db.tx_seq
    /\ conns = 0
    /\ last = Event("none", <<>>, "none", FALSE, <<>>, <<>>)
    /\ deleted_tx = {}
    /\ added = {}
    /\ touched = {}

\* The store can give out the ids a seeding needs
CanSeed(db) == Seeds(db) => db.type_seq + Len(DefaultLiterals) <= MaxTypeId

\* A run of main with no button pressed: a page is shown
Visit(page) ==
    /\ CanSeed(Store)
    /\ LET db == Prelude(Store)
       IN  /\ Commit(db)
           /\ \E view \in (IF page = "Historique" THEN get_transactions(db) ELSE {<<>>}) :
                 last' = Event("visit", <<page>>, "none", Seeds(Store), <<>>, view)
    /\ conns' = 1
    /\ UNCHANGED <<deleted_tx, added, touched>>

\* Lines 191-227, button "Calculer et Enregistrer".  The type is looked up by
\* the selected name and the first row of that name is taken; the rows come in
\* no stated order, so that is any row of the catalog.
RecordTransaction(selected_type, measured_weight, client_name) ==
    /\ last.op # "none"
    /\ CanSeed(Store)
    /\ LET db == Prelude(Store)
           f  == FillTable[FieldsOf(selected_type), measured_weight]
           r  == IF f.rejected THEN [db |-> db, exc |-> "none"]
                 ELSE add_transaction(db, Now, selected_type.id, selected_type.color,
                                      measured_weight, f.gas_mass, f.missing_gas,
                                      f.butane_to_add, f.propane_to_add, client_name)
       IN  /\ selected_type \in get_cartridge_types(db)
           /\ Commit(r.db)
           /\ last' = Event("record", <<selected_type, measured_weight, client_name>>,
                            IF f.rejected THEN "error"
                            ELSE IF r.exc # "none" THEN r.exc ELSE "success",
                            Seeds(Store), <<f>>, <<>>)
    /\ conns' = 1
    /\ UNCHANGED <<deleted_tx, added, touched>>

\* Lines 257-263, form "ajout_type"
AddType(form) ==
    /\ last.op # "none"
    /\ CanSeed(Store)
    /\ LET db == Prelude(Store)
       IN  IF form.name # ""
           THEN /\ db.type_seq < MaxTypeId
                /\ Cardinality(added) < MaxAdded
                /\ Commit(add_cartridge_type(db, form.name, form.full_gas_mass,
                                             form.empty_mass, form.color, form.butane,
                                             form.propane))
                /\ added' = added \cup {db.type_seq + 1}
                /\ last' = Event("add_type", <<form>>, "success", Seeds(Store), <<>>, <<>>)
           ELSE /\ Commit(db)
                /\ added' = added
                /\ last' = Event("add_type", <<form>>, "error", Seeds(Store), <<>>, <<>>)
    /\ conns' = 1
    /\ UNCHANGED <<deleted_tx, touched>>

\* Lines 285-289, form "modif_type".  The id is the one selected when the list
\* was read at line 267; another session may have deleted that type since.
UpdateType(id, form) ==
    /\ last.op # "none"
    /\ Cardinality(touched \cup ({id} \cap Ids(cartridge_types))) <= MaxTouched
    /\ CanSeed(Store)
    /\ LET db == Prelude(Store)
       IN  /\ Commit(update_cartridge_type(db, id, form.name, form.full_gas_mass,
                                           form.empty_mass, form.color, form.butane,
                                           form.propane))
           /\ last' = Event("update_type", <<id, form>>, "success", Seeds(Store),
                            <<>>, <<>>)
    /\ conns' = 1
    /\ touched' = touched \cup ({id} \cap Ids(cartridge_types))
    /\ UNCHANGED <<deleted_tx, added>>

\* Lines 300-303, button "Supprimer ce type".  After a delete that went through
\* st.experimental_rerun() runs main again, with a connection of its own.
DeleteType(id) ==
    /\ last.op # "none"
    /\ Cardinality(touched \cup ({id} \cap Ids(cartridge_types))) <= MaxTouched
    /\ CanSeed(Store)
    /\ LET db == Prelude(Store)
           r  == delete_cartridge_type(db, id)
       IN  IF r.exc # "none"
           THEN /\ Commit(r.db)
                /\ conns' = 1
                /\ last' = Event("delete_type", <<id>>, r.exc, Seeds(Store), <<>>, <<>>)
           ELSE /\ CanSeed(r.db)
                /\ Commit(Prelude(r.db))
                /\ conns' = 2
                /\ last' = Event("delete_type", <<id>>, "success",
                                 Seeds(Store) \/ Seeds(r.db), <<>>, <<>>)
    /\ touched' = touched \cup ({id} \cap Ids(cartridge_types))
    /\ UNCHANGED <<deleted_tx, added>>

\* Lines 326-329, button "Supprimer la transaction", then the rerun shows the
\* history again
DeleteTransaction(id) ==
    /\ last.op # "none"
    /\ CanSeed(Store)
    /\ LET db == Prelude(delete_transaction(Prelude(Store), id))
       IN  /\ Commit(db)
           /\ \E view \in get_transactions(db) :
                 last' = Event("delete_transaction", <<id>>, "success", Seeds(Store),
                               <<>>, view)
    /\ conns' = 2
    /\ deleted_tx' = deleted_tx \cup {id}
    /\ UNCHANGED <<added, touched>>

\* Lines 348-354, form "edit_transaction", then the rerun
UpdateTransaction(id, form) ==
    /\ last.op # "none"
    /\ CanSeed(Store)
    /\ LET db == Prelude(update_transaction(Prelude(Store), id, form.date,
                                            form.measured_weight, form.gas_mass,
                                            form.missing_gas, form.butane_to_add,
                                            form.propane_to_add, form.client_name))
       IN  /\ Commit(db)
           /\ \E view \in get_transactions(db) :
                 last' = Event("update_transaction", <<id, form>>, "success",
                               Seeds(Store), <<>>, view)
    /\ conns' = 2
    /\ UNCHANGED <<deleted_tx, added, touched>>

\* main never closes its connection: it stays open until the interpreter
\* finalizes the connection object, at a moment the program does not control
Finalize ==
    /\ conns > 0
    /\ conns' = conns - 1
    /\ last' = Event("finalize", <<>>, "none", FALSE, <<>>, <<>>)
    /\ UNCHANGED <<tables, cartridge_types, type_seq, transactions, tx_seq,
                   deleted_tx, added, touched>>

Next ==
    \/ \E page \in Pages : Visit(page)
    \/ \E selected_type \in cartridge_types, measured_weight \in Weights,
          client_name \in ClientNames :
            RecordTransaction(selected_type, measured_weight, client_name)
    \/ \E form \in AddForms : AddType(form)
    \/ \E id \in 1..type_seq, form \in ModForms : UpdateType(id, form)
    \/ \E id \in 1..type_seq : DeleteType(id)
    \/ \E id \in 1..tx_seq : DeleteTransaction(id)
    \/ \E id \in 1..tx_seq, form \in TxForms : UpdateTransaction(id, form)
    \/ Finalize

Spec == Init /\ [][Next]_vars


(***************************************************************************)
(* The fill computation on its own: lines 192-205 applied to a type and a  *)
(* measured weight drawn from the sets below.                              *)
(***************************************************************************)
FillTypes ==
    FormsInUse \cup
    { Form(t) : t \in { <<"Tiers", 23000, 9999, "Bleu", 33, 33>>,
                        <<"Lourd", 10000, 35000, "Rouge", 1, 99>> } }

FillWeights ==
    { Dec(n) : n \in {0, 1, 9999, 15000, 20000, 20003, 20004, 22000, 25000, 28001,
                      31234, 45000, 59999, 60000, 100001} }

InitFill ==
    /\ tables = TRUE
    /\ \E f \in FillTypes, w \in FillWeights :
          /\ cartridge_types = {TypeRow(1, f)}
          /\ last = Event("input", <<TypeRow(1, f), w, "">>, "none", FALSE, <<>>, <<>>)
    /\ type_seq = 1
    /\ transactions = {}
    /\ tx_seq = 0
    /\ conns = 0
    /\ deleted_tx = {}
    /\ added = {}
    /\ touched = {}

ComputeFill ==
    /\ last.op = "input"
    /\ LET f == Fill(last.args[1], last.args[2])
       IN  last' = Event("fill", last.args, IF f.rejected THEN "error" ELSE "none",
                         FALSE, <<f>>, <<>>)
    /\ UNCHANGED <<tables, cartridge_types, type_seq, transactions, tx_seq, conns,
                   deleted_tx, added, touched>>

NextFill == ComputeFill

SpecFill == InitFill /\ [][NextFill]_vars


(***************************************************************************)
(* Properties of the fill computation (SpecFill).                          *)
(***************************************************************************)
\* | x - y | as a multiple of 2^e0
Gap(x, y, e0) ==
    IF MagCmp(x, y, e0) >= 0 THEN BSub(Mag(x, e0), Mag(y, e0))
    ELSE BSub(Mag(y, e0), Mag(x, e0))

\* x and y have one sign and | x - y | <= 2^-50 * | y |
WithinRounding(x, y) ==
    /\ FIsNeg(x) = FIsNeg(y)
    /\ BCmp(BShl(Gap(x, y, Min(x.e, y.e)), 50), Mag(y, Min(x.e, y.e))) <= 0

\* The four values of a fill f of type t at weight w, each operation rounded
\* to binary64
FillFormulas(t, w, f) ==
    /\ ~f.rejected
    /\ f.gas_mass = FSub(w, t.empty_mass)
    /\ f.missing_gas =
          IF FLess(FZero, FSub(t.full_gas_mass, f.gas_mass))
          THEN FSub(t.full_gas_mass, f.gas_mass) ELSE FZero
    /\ f.butane_to_add = FMul(f.missing_gas, t.butane)
    /\ f.propane_to_add = FMul(f.missing_gas, t.propane)
    /\ \A v \in {f.gas_mass, f.missing_gas, f.butane_to_add, f.propane_to_add} :
          ~FLess(v, FZero)
    /\ ~FLess(f.gas_mass, t.full_gas_mass) =>
          f.missing_gas = FZero /\ f.butane_to_add = FZero /\ f.propane_to_add = FZero

SumOfParts(f) == FAdd(f.butane_to_add, f.propane_to_add)

PartOfSum(t, f) == FMul(f.missing_gas, FAdd(t.butane, t.propane))

FillDone == last.op = "fill" /\ ~FLess(last.args[2], last.args[1].empty_mass)

\* C2, as stated: for measuredWeight >= emptyMass the fill yields
\* gasMass = measuredWeight - emptyMass, missingGas = max(0, fullGasMass - gasMass),
\* butaneToAdd = missingGas * butaneRatio, propaneToAdd = missingGas * propaneRatio,
\* every result is >= 0, an over-full cartridge gives three zeros, and
\* butaneToAdd + propaneToAdd equals missingGas * (butaneRatio + propaneRatio).
C2_FillExactSum ==
    FillDone =>
        /\ FillFormulas(last.args[1], last.args[2], last.fill[1])
        /\ SumOfParts(last.fill[1]) = PartOfSum(last.args[1], last.fill[1])

\* C2, as the code has it: the same four formulas hold with every operation
\* rounded to binary64, every result is >= 0, an over-full cartridge gives three
\* zeros, and butaneToAdd + propaneToAdd agrees with
\* missingGas * (butaneRatio + propaneRatio) to a relative error of 2^-50; the
\* two need not be equal.
C2_FillRoundedSum ==
    FillDone =>
        /\ FillFormulas(last.args[1], last.args[2], last.fill[1])
        /\ WithinRounding(SumOfParts(last.fill[1]),
                          PartOfSum(last.args[1], last.fill[1]))

\* A fill with gas to add whose two parts do not sum to the product
C2_Witness ==
    /\ FillDone
    /\ FIsPos(last.fill[1].butane_to_add)
    /\ FIsPos(last.fill[1].propane_to_add)
    /\ SumOfParts(last.fill[1]) # PartOfSum(last.args[1], last.fill[1])


(***************************************************************************)
(* Properties of the application (Spec).  A step whose new event has op    *)
(* "record" is a run of main with "Calculer et Enregistrer" pressed, and   *)
(* so on for the other handlers.                                           *)
(***************************************************************************)
RecordStep == last'.op = "record"

Underweight(e) == FLess(e.args[2], e.args[1].empty_mass)

\* The ledger row that recording event e should have produced
Recorded(e, t) ==
    /\ t.cartridge_type_id = e.args[1].id
    /\ t.color = e.args[1].color
    /\ t.measured_weight = e.args[2]
    /\ t.gas_mass = e.fill[1].gas_mass
    /\ t.missing_gas = e.fill[1].missing_gas
    /\ t.butane_to_add = e.fill[1].butane_to_add
    /\ t.propane_to_add = e.fill[1].propane_to_add
    /\ t.date = Now
    /\ t.client_name = e.args[3]

\* C1: for every catalog type and every measuredWeight >= emptyMass, recording
\* persists exactly one new transaction: the ledger grows by one row, and the
\* new row carries the type's id and color, the measured weight, the computed
\* gasMass, missingGas, butaneToAdd and propaneToAdd, a timestamp and the
\* client name.
C1_RecordPersistsOneRow ==
    [][ (RecordStep /\ ~Underweight(last')) =>
           /\ last'.outcome = "success"
           /\ Cardinality(transactions') = Cardinality(transactions) + 1
           /\ \E t \in transactions' \ transactions : Recorded(last', t) ]_vars

\* C3: for every type and every measuredWeight < emptyMass, recording is
\* rejected and writes nothing: the catalog and the ledger are the same after
\* the operation as before it.
C3_UnderweightRejected ==
    [][ (RecordStep /\ Underweight(last')) =>
           /\ last'.outcome = "error"
           /\ transactions' = transactions
           /\ tx_seq' = tx_seq
           /\ cartridge_types' = cartridge_types
           /\ type_seq' = type_seq ]_vars

\* A recording of a weight below the empty mass has been rejected
C3_Witness ==
    /\ last.op = "record"
    /\ Underweight(last)
    /\ last.outcome = "error"
    /\ cartridge_types # {}
    /\ transactions # {}


VisitStep == last'.op = "visit"

DefaultNames == {"Type A", "Type B", "Type C", "Type D", "Type E"}

\* C4: seeding is idempotent.  A startup on an empty catalog leaves exactly the
\* five default types, with five fresh ids; a startup on a non-empty catalog,
\* so also a second startup in a row, changes nothing.
C4_SeedIdempotent ==
    [][ VisitStep =>
           IF cartridge_types = {}
           THEN /\ Cardinality(cartridge_types') = 5
                /\ {r.name : r \in cartridge_types'} = DefaultNames
                /\ Ids(cartridge_types') = (type_seq + 1)..(type_seq + 5)
                /\ type_seq' = type_seq + 5
           ELSE /\ cartridge_types' = cartridge_types
                /\ type_seq' = type_seq ]_vars

\* A second startup in a row on a catalog the first one seeded: five rows
C4_Witness ==
    /\ last.op = "visit"
    /\ ~last.seeded
    /\ type_seq = 5
    /\ Cardinality(cartridge_types) = 5
    /\ {r.name : r \in cartridge_types} = DefaultNames

\* A run of the "modif_type" or "edit_transaction" handler whose id matches no
\* row of its table
AbsentUpdateStep ==
    \/ last'.op = "update_type" /\ last'.args[1] \notin Ids(cartridge_types)
    \/ last'.op = "update_transaction" /\ last'.args[1] \notin Ids(transactions)

StoreUnchanged ==
    /\ cartridge_types' = cartridge_types
    /\ type_seq' = type_seq
    /\ transactions' = transactions
    /\ tx_seq' = tx_seq

\* C5, as stated: updateType and updateTransaction called with an id absent
\* from the store fail with NotFoundError and leave the catalog and the
\* ledger unchanged.
C5_AbsentIdNotFound ==
    [][ AbsentUpdateStep => last'.outcome = "NotFoundError" /\ StoreUnchanged ]_vars

\* C5, as the code has it: updateType and updateTransaction called with an id
\* absent from the store raise nothing and report success like any other
\* update; the catalog and the ledger are unchanged.
C5_AbsentIdSilent ==
    [][ AbsentUpdateStep => last'.outcome = "success" /\ StoreUnchanged ]_vars

\* An update of a type id that is not in the catalog has been run
C5_Witness ==
    /\ last.op = "update_type"
    /\ last.args[1] \notin Ids(cartridge_types)
    /\ last.outcome = "success"
    /\ cartridge_types # {}

DeleteTypeStep == last'.op = "delete_type"

NoDangling == \A t \in transactions : t.cartridge_type_id \in Ids(cartridge_types)

\* C6, as stated: deleteType(id) succeeds unconditionally, also when ledger
\* entries reference the type: the type is removed from the catalog and the
\* ledger is unchanged.
C6_DeleteUnconditional ==
    [][ DeleteTypeStep =>
           /\ last'.outcome = "success"
           /\ last'.args[1] \notin Ids(cartridge_types')
           /\ transactions' = transactions ]_vars

\* C6, as the code has it: deleteType(id) removes the type only when no ledger
\* entry references it; when one does, the store rejects the delete with an
\* integrity error and the catalog is unchanged.  The ledger is unchanged in
\* both cases and no transaction ever points at a missing catalog entry.
C6_DeleteRestricted ==
    [][ DeleteTypeStep =>
           /\ IF \E t \in transactions : t.cartridge_type_id = last'.args[1]
              THEN /\ last'.outcome = "IntegrityError"
                   /\ cartridge_types' = cartridge_types
              ELSE /\ last'.outcome = "success"
                   /\ last'.args[1] \notin Ids(cartridge_types')
                   /\ {r \in cartridge_types' : r.id \in Ids(cartridge_types)} =
                         {r \in cartridge_types : r.id # last'.args[1]}
           /\ transactions' = transactions
           /\ NoDangling' ]_vars

\* The delete of a type that a ledger entry references has been refused
C6_Witness ==
    /\ last.op = "delete_type"
    /\ last.outcome = "IntegrityError"
    /\ last.args[1] \in Ids(cartridge_types)
    /\ \E t \in transactions : t.cartridge_type_id = last.args[1]


\* The ids a listing shows
Listed(view) == {view[i].id : i \in 1..Len(view)}

\* C7: deletion of a transaction is terminal.  Once a transaction id has been
\* deleted, no stored row, no result of get_transactions and no history shown
\* carries that id again, whatever was run in between; ids are given out by a
\* sequence that only grows, so none is reused.
C7_DeletionTerminal ==
    /\ \A id \in deleted_tx :
          /\ id \notin Ids(transactions)
          /\ id \notin Listed(last.view)
          /\ \A view \in get_transactions(Store) : id \notin Listed(view)
    /\ \A t \in transactions : t.id <= tx_seq

\* After a delete, other operations have run and a history with rows is shown
C7_Witness ==
    /\ deleted_tx # {}
    /\ touched # {}
    /\ last.op = "visit"
    /\ Len(last.view) >= 1

\* A run of "modif_type" on the id of a type that "ajout_type" created and
\* that is still in the catalog
RoundTripStep ==
    /\ last'.op = "update_type"
    /\ last'.args[1] \in added \cap Ids(cartridge_types)

\* C8: after addType created a type and updateType is run on its id, the type
\* not having been deleted in between, the listing of types shows that type
\* once, under the same id, with exactly the updated name, masses, color and
\* ratios; every other catalog entry is unchanged.
C8_AddUpdateRoundTrip ==
    [][ RoundTripStep =>
           /\ {r \in get_cartridge_types(Store)' : r.id = last'.args[1]} =
                 {TypeRow(last'.args[1], last'.args[2])}
           /\ {r \in get_cartridge_types(Store)' : r.id # last'.args[1]} =
                 {r \in get_cartridge_types(Store) : r.id # last'.args[1]}
           /\ last'.outcome = "success" ]_vars

\* An added type has been updated: its row now holds other values than the
\* ones it was added with
C8_Witness ==
    /\ last.op = "update_type"
    /\ last.args[1] \in added
    /\ \E r \in cartridge_types :
          /\ r.id = last.args[1]
          /\ FieldsOf(r) = last.args[2]
          /\ FieldsOf(r) \notin AddForms
    /\ Cardinality(cartridge_types) >= 3

\* C9: every connection acquired for a request is released on every exit path
\* of that request, so no request ends with its connection still open.
C9_ConnectionReleased == last.op \notin {"none", "finalize"} => conns = 0

\* A run of main that showed the history
ShowsHistory(e) ==
    \/ e.op = "visit" /\ e.args[1] = "Historique"
    \/ e.op \in {"delete_transaction", "update_transaction"}

\* The transactions of db whose type is in the catalog of db
Resolving(db) ==
    {t \in db.transactions : t.cartridge_type_id \in Ids(db.cartridge_types)}

\* view lists, latest date text first, each resolving transaction of db once,
\* under the current name of its type
ListsLedger(db, view) ==
    /\ Cardinality(Listed(view)) = Len(view)
    /\ Listed(view) = Ids(Resolving(db))
    /\ \A i \in 1..Len(view) :
          \E t \in db.transactions, ct \in db.cartridge_types :
             /\ t.id = view[i].id
             /\ ct.id = t.cartridge_type_id
             /\ view[i].cartridge_name = ct.name
             /\ view[i].date = t.date
             /\ view[i].color = t.color
             /\ view[i].measured_weight = t.measured_weight
             /\ view[i].gas_mass = t.gas_mass
             /\ view[i].missing_gas = t.missing_gas
             /\ view[i].butane_to_add = t.butane_to_add
             /\ view[i].propane_to_add = t.propane_to_add
             /\ view[i].client_name = t.client_name
    /\ \A i, j \in 1..Len(view) : i < j => ~TextLess(view[i].date, view[j].date)

\* The store as the join would see it with the catalog rows of ids gone removed
Without(gone) == [Store EXCEPT !.cartridge_types = {r \in @ : r.id \notin gone}]

====
